---- MODULE Spec2Model ----
(***************************************************************************)
(* Model of byescreen's feature aggregator (aggreagated_analysis.py) and   *)
(* of its model scorer (screen.py).                                        *)
(*                                                                         *)
(* Python dicts are objects: merge_features appends the very dict it was   *)
(* given and updates dicts in place, so bins live in a heap (a sequence of *)
(* records) and the lists `features` and `aux_features` hold references    *)
(* (indices into the heap).  Floats are modelled by integers on a small    *)
(* grid; nothing that is checked depends on rounding.                      *)
(***************************************************************************)
EXTENDS Integers, Sequences, FiniteSets, TLC

VARIABLES
    \* aggreagated_analysis.py
    heap,          \* the dicts created so far: object id -> dict
    features,      \* analyze_models' merged list (object ids)
    aux_features,  \* the list merge_features is folding in (object ids)
    pos,           \* index in aux_features of merge_features' next val1
    k,             \* number of merge_features calls started
    contrib,       \* history: object id -> the models merged into it
    reports,       \* the reports of a directory, as lists of bins
    order,         \* the order in which find_files_recursively yields them
    first_run,     \* the merged set of an earlier run over the same reports
    ov,            \* get_overlap: its arguments and its result
    rm,            \* read_model: the report, args.n and the scan's position
    sv,            \* score_feature_vector: its arguments and its result
    sc,            \* screen: the molecules, the loops' positions and locals
    nf             \* get_normalized_features: the table and the result

aggVars == <<heap, features, aux_features, pos, k, contrib>>
runVars == <<reports, order, first_run>>
scrVars == <<sv, sc, nf>>
vars == <<aggVars, runVars, ov, rm, scrVars>>

\* ---------------------------------------------------------------- bounds
MaxObjs == 3
MaxModels == 2

\* The bins a report may hold: every interval of the grid with two ratios
\* for one feature, and two intervals of a second feature.
Names == {"LogP", "TPSA"}
Coords == 0..2
Ratios(name) == IF name = "LogP" THEN {1, 2} ELSE {3}

Min(a, b) == IF a <= b THEN a ELSE b
Max(a, b) == IF a >= b THEN a ELSE b

Intervals == {iv \in Coords \X Coords : iv[1] <= iv[2]}

\* ------------------------------------------------- aggreagated_analysis.py

\* get_overlap without the max(0, ...): negative, hence truthy, on intervals
\* that are apart.
get_overlap_unclamped(a, b) == Min(a[2], b[2]) - Max(a[1], b[1])

\* max(0, min(a[1], b[1]) - max(a[0], b[0])); Python indexes from 0.
get_overlap(a, b) == Max(0, Min(a[2], b[2]) - Max(a[1], b[1]))

\* The dict read_model builds for one record: "cnt" is 1.
NewBin(name, ratio, interval) ==
    [name |-> name, ratio |-> ratio, interval |-> interval, cnt |-> 1]

IntervalsOf(name) == IF name = "LogP" THEN Intervals ELSE {<<0, 2>>, <<1, 2>>}

Bins == UNION {{NewBin(n, r, iv) : r \in Ratios(n), iv \in IntervalsOf(n)} : n \in Names}

BinLists(n) == UNION {[1..m -> Bins] : m \in 0..n}

\* The condition of merge_features' inner if: bool() of a number is "not 0".
Matches(val1, val2) ==
    val1.name = val2.name /\ get_overlap(val1.interval, val2.interval) # 0

\* UpdateEntry with the two interval indices mixed up.
UpdateEntrySwapped(h, o1, o2) ==
    LET h1 == [h EXCEPT ![o2].interval =
                   <<Min(h[o1].interval[2], h[o2].interval[2]),
                     Max(h[o1].interval[1], h[o2].interval[1])>>]
        h2 == [h1 EXCEPT ![o2].ratio = h1[o2].ratio + h1[o1].ratio]
    IN  [h2 EXCEPT ![o2].cnt = h2[o2].cnt + 1]

\* UpdateEntry that leaves the interval of the entry as it was.
UpdateEntryNoUnion(h, o1, o2) ==
    LET h2 == [h EXCEPT ![o2].ratio = h[o2].ratio + h[o1].ratio]
    IN  [h2 EXCEPT ![o2].cnt = h2[o2].cnt + 1]

\* The body of the inner if, on features[ix2] = the object o2; val1 is the
\* object o1.  The three assignments run in order on the heap h, so an o1
\* that is o2 itself is read after it was written.
UpdateEntry(h, o1, o2) ==
    LET h1 == [h EXCEPT ![o2].interval =
                   <<Min(h[o1].interval[1], h[o2].interval[1]),
                     Max(h[o1].interval[2], h[o2].interval[2])>>]
        h2 == [h1 EXCEPT ![o2].ratio = h1[o2].ratio + h1[o1].ratio]
    IN  [h2 EXCEPT ![o2].cnt = h2[o2].cnt + 1]

\* for ix2 in range(len(features)): ... from ix2 on; the result is the heap
\* and the flag `intersected`.
RECURSIVE InnerLoop(_, _, _, _, _)
InnerLoop(h, feats, o1, ix2, intersected) ==
    IF ix2 > Len(feats) THEN [heap |-> h, intersected |-> intersected]
    ELSE IF Matches(h[o1], h[feats[ix2]])
         THEN InnerLoop(UpdateEntry(h, o1, feats[ix2]), feats, o1, ix2 + 1, TRUE)
         ELSE InnerLoop(h, feats, o1, ix2 + 1, intersected)

\* The inner loop with a break after the first match.
RECURSIVE InnerLoopBreak(_, _, _, _)
InnerLoopBreak(h, feats, o1, ix2) ==
    IF ix2 > Len(feats) THEN [heap |-> h, intersected |-> FALSE]
    ELSE IF Matches(h[o1], h[feats[ix2]])
         THEN [heap |-> UpdateEntry(h, o1, feats[ix2]), intersected |-> TRUE]
         ELSE InnerLoopBreak(h, feats, o1, ix2 + 1)

MergeValFirstMatch(h, feats, o1) ==
    LET r == InnerLoopBreak(h, feats, o1, 1)
    IN  [heap |-> r.heap,
         features |-> IF r.intersected THEN feats ELSE Append(feats, o1)]

\* One iteration of merge_features' outer loop, for val1 = the object o1.
MergeVal(h, feats, o1) ==
    LET r == InnerLoop(h, feats, o1, 1, FALSE)
    IN  [heap |-> r.heap,
         features |-> IF r.intersected THEN feats ELSE Append(feats, o1)]

\* The merged set as values, in list order.
Merged == [i \in 1..Len(features) |-> heap[features[i]]]

\* ------------------------------------------------------ analyze_models

\* analyze_models' loop body up to the call: read_model returns a fresh
\* list of fresh dicts, and merge_features starts on it.
ReadModel ==
    /\ pos > Len(aux_features)
    /\ k < MaxModels
    /\ \E L \in BinLists(MaxObjs - Len(heap)) :
          /\ heap' = heap \o L
          /\ aux_features' = [i \in 1..Len(L) |-> Len(heap) + i]
          /\ contrib' = contrib \o [i \in 1..Len(L) |-> {k + 1}]
    /\ pos' = 1
    /\ k' = k + 1
    /\ UNCHANGED <<features, runVars, ov, rm, scrVars>>

\* One iteration of merge_features' outer loop on the current model.
\* contrib (history, not in the code) records for every object the models
\* whose bins were merged into it.
MergeBin ==
    /\ pos <= Len(aux_features)
    /\ LET o1 == aux_features[pos]
           r == MergeVal(heap, features, o1)
       IN  /\ heap' = r.heap
           /\ features' = r.features
           /\ contrib' = [o \in 1..Len(heap) |->
                 IF \E i \in 1..Len(features) :
                        features[i] = o /\ r.heap[o].cnt # heap[o].cnt
                 THEN contrib[o] \cup {k} ELSE contrib[o]]
    /\ pos' = pos + 1
    /\ UNCHANGED <<aux_features, k, runVars, ov, rm, scrVars>>

NextFold == ReadModel \/ MergeBin

\* --------------------------------------- the same list merged a second time

\* merge_features(features, L) a second time with the list L of the first
\* call: the same list object, holding the same dicts.
MergeSameAgain ==
    /\ pos > Len(aux_features)
    /\ k = 1
    /\ pos' = 1
    /\ k' = 2
    /\ UNCHANGED <<heap, features, aux_features, contrib, runVars, ov, rm, scrVars>>

NextTwice == MergeBin \/ MergeSameAgain

\* ------------------------------------ two runs over the same three reports

ReportIds == {1, 2, 3}

Orders == {o \in [ReportIds -> ReportIds] : \A i \in ReportIds : \E j \in ReportIds : o[j] = i}

\* The merged set as a multiset of (name, interval, ratio, cnt).
BagOf(seq) ==
    [e \in {seq[i] : i \in 1..Len(seq)} |-> Cardinality({i \in 1..Len(seq) : seq[i] = e})]

\* analyze_models' loop body in a run that lists the directory in the
\* order order[run]: the next report is read into fresh dicts.
ReadReport ==
    /\ pos > Len(aux_features)
    /\ k < Len(reports)
    /\ LET L == reports[order[Len(first_run) + 1][k + 1]]
       IN  /\ heap' = heap \o L
           /\ aux_features' = [i \in 1..Len(L) |-> Len(heap) + i]
           /\ contrib' = contrib \o [i \in 1..Len(L) |-> {k + 1}]
    /\ pos' = 1
    /\ k' = k + 1
    /\ UNCHANGED <<features, runVars, ov, rm, scrVars>>

\* The first run is over: its merged set is kept for comparison and the
\* program is started again, on the same reports in the second order.
SecondRun ==
    /\ pos > Len(aux_features)
    /\ k = Len(reports)
    /\ first_run = <<>>
    /\ first_run' = <<BagOf(Merged)>>
    /\ heap' = <<>>
    /\ features' = <<>>
    /\ aux_features' = <<>>
    /\ contrib' = <<>>
    /\ pos' = 1
    /\ k' = 0
    /\ UNCHANGED <<reports, order, ov, rm, scrVars>>

NextOrder == ReadReport \/ MergeBin \/ SecondRun

\* ------------------------------------------------------------ get_overlap

MaxCoord == 3

OvIntervals == {iv \in (0..MaxCoord) \X (0..MaxCoord) : iv[1] <= iv[2]}

\* The call get_overlap(a, b); result holds the returned number.
CallOverlap ==
    /\ ov.result = <<>>
    /\ ov' = [ov EXCEPT !.result = <<get_overlap(ov.a, ov.b)>>]
    /\ UNCHANGED <<aggVars, runVars, rm, scrVars>>

NextOv == CallOverlap

\* ------------------------------------------------------------- read_model

MaxLines == 3
MaxN == 2

\* A report line, by what read_model looks at: whether it holds the marker
\* text "Features values importance" and how many fields line.split(",")
\* gives.  The record made from line i is identified by i.
LineKinds == [marker : BOOLEAN, fields : {1, 4, 5}]

Reports == UNION {[1..m -> LineKinds] : m \in 0..MaxLines}

\* One iteration of read_model's for loop, on line rm.line of the report.
ReadLine ==
    /\ ~rm.done
    /\ rm.line <= Len(rm.fm)
    /\ LET l == rm.fm[rm.line]
           in_section == rm.in_section \/ l.marker
           feats == IF in_section /\ l.fields = 4
                    THEN Append(rm.features, rm.line) ELSE rm.features
           brk == in_section /\ l.fields = 4 /\ Len(feats) >= rm.n
       IN  rm' = [rm EXCEPT !.in_section = in_section, !.features = feats,
                            !.line = rm.line + 1, !.done = brk]
    /\ UNCHANGED <<aggVars, runVars, ov, scrVars>>

\* The for loop ends at the end of the file; read_model returns features.
EndOfFile ==
    /\ ~rm.done
    /\ rm.line > Len(rm.fm)
    /\ rm' = [rm EXCEPT !.done = TRUE]
    /\ UNCHANGED <<aggVars, runVars, ov, scrVars>>

NextRm == ReadLine \/ EndOfFile


\* ============================================================== screen.py

\* A trained model.  A normalized feature value is kept in quarters (q
\* stands for q/4, exact in binary floating point).  log_ratio[ix][fv] is an
\* integer standing for math.log(feature_value_in_actives[ix][fv] /
\* feature_value_in_inactives[ix][fv]), both tables having cnt_bins columns,
\* and prior stands for math.log(probs["active"] / probs["inactive"]).
features_names == <<"f1", "f2">>

Model(cnt_bins) ==
    [cnt_bins |-> cnt_bins,
     log_ratio |-> [ix \in 1..Len(features_names) |->
                       [fv \in 1..cnt_bins |-> 10 * ix * fv + fv]],
     prior |-> 1,
     mins |-> <<1, 2>>,
     maxs |-> <<3, 6>>,
     imputation_values |-> <<2, 5>>]

\* Python's list indexing t[i] on a list of n elements, as the 1-based index
\* it reads: a negative i counts from the end, and 0 stands for IndexError.
PyIndex(n, i) ==
    IF 0 <= i /\ i < n THEN i + 1
    ELSE IF -n <= i /\ i < 0 THEN n + i + 1
    ELSE 0

\* int(math.floor(feature_value * cnt_bins)) and the line after it.
BinOf(q, cnt_bins) ==
    LET fv == (q * cnt_bins) \div 4
    IN  IF fv = cnt_bins THEN fv - 1 ELSE fv

\* score_feature_vector's loop from index ix on (ix is 1-based here); looked
\* lists the Python indices fv the tables were read at.
RECURSIVE ScoreLoop(_, _, _, _, _)
ScoreLoop(feature_vector, m, ix, score, looked) ==
    IF ix > Len(feature_vector)
    THEN [error |-> FALSE, score |-> score + m.prior, looked |-> looked]
    ELSE LET fv == BinOf(feature_vector[ix], m.cnt_bins)
             at == PyIndex(m.cnt_bins, fv)
         IN  IF at = 0
             THEN [error |-> TRUE, score |-> 0, looked |-> looked]
             ELSE ScoreLoop(feature_vector, m, ix + 1,
                            score + m.log_ratio[ix][at], Append(looked, fv))

score_feature_vector(feature_vector, m) ==
    ScoreLoop(feature_vector, m, 1, 0, <<>>)

MaxBinCount == 3

QValues == -2..6

FeatureVectors == UNION {[1..n -> QValues] : n \in 1..Len(features_names)}

\* The call score_feature_vector(feature_vector, probs, cnt_bins).
CallScore ==
    /\ sv.result = <<>>
    /\ sv' = [sv EXCEPT !.result =
                 <<score_feature_vector(sv.feature_vector, Model(sv.cnt_bins))>>]
    /\ UNCHANGED <<aggVars, runVars, ov, rm, sc, nf>>

NextScore == CallScore

\* ------------------------------------------------------------------ screen

MaxMols == 2
MaxFrags == 3

Smiles == {"CC", "CO"}

\* fragments_features as get_normalized_features leaves it (values in [0,1]),
\* and the model of the run.
fragments_features == [s \in Smiles |-> IF s = "CC" THEN <<0, 4>> ELSE <<3, 1>>]

ScreenModel == Model(2)

FragLists == UNION {[1..n -> Smiles] : n \in 0..MaxFrags}

MolLists == UNION {[1..n -> FragLists] : n \in 1..MaxMols}

\* np.mean of a list of numbers, as the pair <<sum, len>>.
RECURSIVE SumSeq(_)
SumSeq(s) == IF s = <<>> THEN 0 ELSE Head(s) + SumSeq(Tail(s))

Mean(s) == <<SumSeq(s), Len(s)>>

InSeq(x, s) == \E i \in 1..Len(s) : s[i] = x

\* BeginMol with processed_frags made once, before the loop over molecules.
BeginMolNoReset ==
    /\ sc.at = "for_mol"
    /\ sc.mol < Len(sc.mols)
    /\ sc' = [sc EXCEPT !.mol = sc.mol + 1, !.frag = 1, !.at = "for_frag",
                        !.fragments_scores = <<>>]
    /\ UNCHANGED <<aggVars, runVars, ov, rm, sv, nf>>

\* for mol in mols: the next molecule is taken and its two lists are made.
BeginMol ==
    /\ sc.at = "for_mol"
    /\ sc.mol < Len(sc.mols)
    /\ sc' = [sc EXCEPT !.mol = sc.mol + 1, !.frag = 1, !.at = "for_frag",
                        !.fragments_scores = <<>>, !.processed_frags = <<>>]
    /\ UNCHANGED <<aggVars, runVars, ov, rm, sv, nf>>

\* One iteration of for frag in mol["fragments"].  Every vector of
\* fragments_features is in [0,1] here, so the scoring call returns.
ScoreFrag ==
    /\ sc.at = "for_frag"
    /\ sc.frag <= Len(sc.mols[sc.mol])
    /\ LET smiles == sc.mols[sc.mol][sc.frag]
       IN  IF ~InSeq(smiles, sc.processed_frags)
           THEN sc' = [sc EXCEPT
                    !.processed_frags = Append(sc.processed_frags, smiles),
                    !.fragments_scores = Append(sc.fragments_scores,
                        score_feature_vector(fragments_features[smiles],
                                             ScreenModel).score),
                    !.frag = sc.frag + 1]
           ELSE sc' = [sc EXCEPT !.frag = sc.frag + 1]
    /\ UNCHANGED <<aggVars, runVars, ov, rm, sv, nf>>

\* After the fragments: mol["score"] is set when a fragment was scored.  No
\* score is np.nan or None, so the filter of line 49 keeps them all.
EndMol ==
    /\ sc.at = "for_frag"
    /\ sc.frag > Len(sc.mols[sc.mol])
    /\ sc' = [sc EXCEPT !.at = "for_mol",
                        !.score = IF Len(sc.fragments_scores) > 0
                                  THEN Append(sc.score, <<Mean(sc.fragments_scores)>>)
                                  ELSE Append(sc.score, <<>>)]
    /\ UNCHANGED <<aggVars, runVars, ov, rm, sv, nf>>

\* The molecules are done: result lists those that have a score.
Return ==
    /\ sc.at = "for_mol"
    /\ sc.mol = Len(sc.mols)
    /\ sc' = [sc EXCEPT !.at = "returned",
                        !.result = SelectSeq(
                            [i \in 1..Len(sc.mols) |->
                                [molecule |-> i, score |-> sc.score[i]]],
                            LAMBDA r : r.score # <<>>)]
    /\ UNCHANGED <<aggVars, runVars, ov, rm, sv, nf>>

NextScreen == BeginMol \/ ScoreFrag \/ EndMol \/ Return

\* ------------------------------------------------- get_normalized_features

MaxRows == 2

\* common.to_float on a cell of the descriptor table: the number it reads,
\* or NaN for a cell that holds none.
NaN == [nan |-> TRUE, val |-> 0]

Num(v) == [nan |-> FALSE, val |-> v]

to_float(cell) ==
    CASE cell = "0" -> Num(0)
      [] cell = "2" -> Num(2)
      [] cell = "7" -> Num(7)
      [] OTHER -> NaN

Cells == {"0", "2", "7", ""}

\* The headers of a descriptor table: the fragment column, then the model's
\* feature columns in any order, possibly with another column among them.
ColumnOrders == {<<"f1", "f2">>, <<"f2", "f1">>,
                 <<"x", "f1", "f2">>, <<"f1", "x", "f2">>, <<"f1", "f2", "x">>,
                 <<"x", "f2", "f1">>, <<"f2", "x", "f1">>, <<"f2", "f1", "x">>}

Headers == {<<"Name">> \o c : c \in ColumnOrders}

DataRows(h) ==
    {<<s>> \o c : s \in Smiles, c \in [1..(Len(h) - 1) -> Cells]}

Tables(h, n) == {<<h>> \o rs : rs \in [1..n -> DataRows(h)]}

\* The header scan: the indices ix of row, in increasing order, with
\* row[ix] in feature_names.
RECURSIVE HeaderScan(_, _)
HeaderScan(row, ix) ==
    IF ix > Len(row) THEN <<>>
    ELSE IF InSeq(row[ix], features_names)
         THEN <<ix>> \o HeaderScan(row, ix + 1)
         ELSE HeaderScan(row, ix + 1)

\* The csv loop from row r on: st holds ixs_uncorr_features, fragments and
\* features (one list of cells per selected column).
RECURSIVE CsvLoop(_, _, _)
CsvLoop(rows, r, st) ==
    IF r > Len(rows) THEN st
    ELSE LET row == rows[r]
         IN  IF row = <<>> THEN CsvLoop(rows, r + 1, st)
             ELSE IF Len(st.ixs_uncorr_features) = 0
             THEN LET ixs == HeaderScan(row, 1)
                  IN  CsvLoop(rows, r + 1,
                          [st EXCEPT !.ixs_uncorr_features = ixs,
                                     !.features = [i \in 1..Len(ixs) |-> <<>>]])
             ELSE CsvLoop(rows, r + 1,
                      [st EXCEPT
                          !.fragments = Append(st.fragments, row[1]),
                          !.features = [ix \in 1..Len(st.ixs_uncorr_features) |->
                              Append(st.features[ix],
                                     row[st.ixs_uncorr_features[ix]])]])

\* numpy's clip(lo, hi).
Clip(x, lo, hi) == Min(Max(x, lo), hi)

\* Conversion, imputation, clipping and scaling of the cell in row ix of
\* features: the parameters are those at index ix of the model's lists.  The
\* quotient is kept as <<numerator, denominator>>.
NormalizedCell(cell, ix, m) ==
    LET x == to_float(cell)
        imputed == IF x.nan THEN m.imputation_values[ix] ELSE x.val
        clipped == Clip(imputed, m.mins[ix], m.maxs[ix])
    IN  <<clipped - m.mins[ix], m.maxs[ix] - m.mins[ix]>>

\* get_normalized_features(fn_ds_csv, model): the dict fragments_features; a
\* fragment named by several rows keeps the vector of the last one.  With a
\* number of selected columns other than len(mins) numpy raises.
get_normalized_features(rows, m) ==
    LET st == CsvLoop(rows, 1, [ixs_uncorr_features |-> <<>>,
                                fragments |-> <<>>, features |-> <<>>])
        n == Len(st.features)
        Last(s) == CHOOSE i \in 1..Len(st.fragments) :
                      /\ st.fragments[i] = s
                      /\ \A j \in (i + 1)..Len(st.fragments) : st.fragments[j] # s
    IN  IF n # Len(m.mins) THEN [error |-> TRUE, fragments_features |-> <<>>]
        ELSE [error |-> FALSE,
              fragments_features |->
                  [s \in {st.fragments[i] : i \in 1..Len(st.fragments)} |->
                      [ix \in 1..n |->
                          NormalizedCell(st.features[ix][Last(s)], ix, m)]]]

\* The call get_normalized_features(fn_ds_csv, model).
CallNormalize ==
    /\ nf.result = <<>>
    /\ nf' = [nf EXCEPT !.result = <<get_normalized_features(nf.rows, ScreenModel)>>]
    /\ UNCHANGED <<aggVars, runVars, ov, rm, sv, sc>>

NextNorm == CallNormalize

\* ---------------------------------------------------------- specifications

NoOv == [a |-> <<0, 0>>, b |-> <<0, 0>>, result |-> <<>>]
NoRm == [fm |-> <<>>, n |-> 1, line |-> 1, in_section |-> FALSE,
         features |-> <<>>, done |-> TRUE]
NoSv == [feature_vector |-> <<>>, cnt_bins |-> 1, result |-> <<>>]
NoSc == [mols |-> <<>>, mol |-> 0, frag |-> 1, at |-> "returned",
         fragments_scores |-> <<>>, processed_frags |-> <<>>,
         score |-> <<>>, result |-> <<>>]
NoNf == [rows |-> <<>>, result |-> <<>>]

InitFold ==
    /\ heap = <<>> /\ features = <<>> /\ aux_features = <<>>
    /\ pos = 1 /\ k = 0 /\ contrib = <<>>
    /\ reports = <<>> /\ order = <<>> /\ first_run = <<>>
    /\ ov = NoOv /\ rm = NoRm /\ sv = NoSv /\ sc = NoSc /\ nf = NoNf

InitTwice ==
    /\ heap \in BinLists(MaxObjs)
    /\ aux_features = [i \in 1..Len(heap) |-> i]
    /\ contrib = [i \in 1..Len(heap) |-> {1}]
    /\ features = <<>> /\ pos = 1 /\ k = 1
    /\ reports = <<>> /\ order = <<>> /\ first_run = <<>>
    /\ ov = NoOv /\ rm = NoRm /\ sv = NoSv /\ sc = NoSc /\ nf = NoNf

InitOrder ==
    /\ heap = <<>> /\ features = <<>> /\ aux_features = <<>>
    /\ pos = 1 /\ k = 0 /\ contrib = <<>>
    /\ reports \in [ReportIds -> {<<b>> : b \in Bins}]
    /\ order \in {<<[i \in ReportIds |-> i], o>> : o \in Orders}
    /\ first_run = <<>>
    /\ ov = NoOv /\ rm = NoRm /\ sv = NoSv /\ sc = NoSc /\ nf = NoNf

InitOv ==
    /\ heap = <<>> /\ features = <<>> /\ aux_features = <<>>
    /\ pos = 1 /\ k = 0 /\ contrib = <<>>
    /\ reports = <<>> /\ order = <<>> /\ first_run = <<>>
    /\ ov \in [a : OvIntervals, b : OvIntervals, result : {<<>>}]
    /\ rm = NoRm /\ sv = NoSv /\ sc = NoSc /\ nf = NoNf

InitRm ==
    /\ heap = <<>> /\ features = <<>> /\ aux_features = <<>>
    /\ pos = 1 /\ k = 0 /\ contrib = <<>>
    /\ reports = <<>> /\ order = <<>> /\ first_run = <<>>
    /\ rm \in [fm : Reports, n : 1..MaxN, line : {1}, in_section : {FALSE},
               features : {<<>>}, done : {FALSE}]
    /\ ov = NoOv /\ sv = NoSv /\ sc = NoSc /\ nf = NoNf

InitScore ==
    /\ heap = <<>> /\ features = <<>> /\ aux_features = <<>>
    /\ pos = 1 /\ k = 0 /\ contrib = <<>>
    /\ reports = <<>> /\ order = <<>> /\ first_run = <<>>
    /\ sv \in [feature_vector : FeatureVectors, cnt_bins : 1..MaxBinCount,
               result : {<<>>}]
    /\ ov = NoOv /\ rm = NoRm /\ sc = NoSc /\ nf = NoNf

InitScreen ==
    /\ heap = <<>> /\ features = <<>> /\ aux_features = <<>>
    /\ pos = 1 /\ k = 0 /\ contrib = <<>>
    /\ reports = <<>> /\ order = <<>> /\ first_run = <<>>
    /\ sc \in [mols : MolLists, mol : {0}, frag : {1}, at : {"for_mol"},
               fragments_scores : {<<>>}, processed_frags : {<<>>},
               score : {<<>>}, result : {<<>>}]
    /\ ov = NoOv /\ rm = NoRm /\ sv = NoSv /\ nf = NoNf

InitNorm ==
    /\ heap = <<>> /\ features = <<>> /\ aux_features = <<>>
    /\ pos = 1 /\ k = 0 /\ contrib = <<>>
    /\ reports = <<>> /\ order = <<>> /\ first_run = <<>>
    /\ \E h \in Headers, n \in 1..MaxRows :
          nf \in [rows : Tables(h, n), result : {<<>>}]
    /\ ov = NoOv /\ rm = NoRm /\ sv = NoSv /\ sc = NoSc

SpecFold == InitFold /\ [][NextFold]_vars

SpecTwice == InitTwice /\ [][NextTwice]_vars

SpecOrder == InitOrder /\ [][NextOrder]_vars

SpecOverlap == InitOv /\ [][NextOv]_vars

SpecRead == InitRm /\ [][NextRm]_vars

SpecScore == InitScore /\ [][NextScore]_vars

SpecScreen == InitScreen /\ [][NextScreen]_vars

SpecNorm == InitNorm /\ [][NextNorm]_vars

\* ============================================================= properties

Entry(i) == heap[features[i]]

MergeDone == pos > Len(aux_features)

\* What one step of the outer loop, on the bin x = aux_features[pos], does
\* to the merged set.
C1_Step ==
    pos' = pos + 1 =>
        LET o1 == aux_features[pos]
            x == heap[o1]
            matched == {i \in 1..Len(features) :
                           /\ Entry(i).name = x.name
                           /\ get_overlap(x.interval, Entry(i).interval) > 0}
        IN  /\ aux_features' = aux_features
            /\ \A i \in 1..Len(features) :
                  /\ features'[i] = features[i]
                  /\ heap'[features[i]] =
                        IF i \in matched
                        THEN [name |-> Entry(i).name,
                              interval |-> <<Min(x.interval[1], Entry(i).interval[1]),
                                             Max(x.interval[2], Entry(i).interval[2])>>,
                              ratio |-> Entry(i).ratio + x.ratio,
                              cnt |-> Entry(i).cnt + 1]
                        ELSE Entry(i)
            /\ IF matched = {}
               THEN /\ features' = Append(features, o1)
                    /\ heap'[o1] = x
                    /\ x.cnt = 1
               ELSE features' = features

\* The first bin of a second one-bin model meets the one bin of the first.
C1_TwoModels ==
    (k = 2 /\ features = <<1>> /\ aux_features = <<2>> /\ pos = 1 /\ pos' = 2
       /\ heap[1].name = heap[2].name) =>
        LET a == heap[1]
            b == heap[2]
            Merged2 == [i \in 1..Len(features') |-> heap'[features'[i]]]
        IN  /\ get_overlap(a.interval, b.interval) > 0 =>
                  Merged2 = <<[name |-> a.name,
                               interval |-> <<Min(a.interval[1], b.interval[1]),
                                              Max(a.interval[2], b.interval[2])>>,
                               ratio |-> a.ratio + b.ratio,
                               cnt |-> 2]>>
            /\ (a.interval[2] < b.interval[1] \/ b.interval[2] < a.interval[1]) =>
                  /\ Merged2 = <<a, b>>
                  /\ a.cnt = 1 /\ b.cnt = 1

\* C1: a step of merge_features' outer loop takes the next bin x of
\* aux_features; every entry y of the merged set with x's name and an
\* interval that get_overlap finds overlapping x's gets the union interval,
\* ratio y.ratio + x.ratio and cnt y.cnt + 1, every other entry stays as it
\* is, and x is appended, with cnt 1, exactly when no entry matched.  Two
\* one-bin models of one name give one entry (union, summed ratio, cnt 2)
\* when their intervals overlap and two entries of cnt 1 when they are apart.
C1_MergeStep == [][C1_Step /\ C1_TwoModels]_vars

\* A bin of the second model has matched both entries of the first.
C1_Witness ==
    /\ k = 2 /\ MergeDone
    /\ Len(features) = 2
    /\ Entry(1).cnt = 2 /\ Entry(2).cnt = 2

\* C3: after any number k >= 1 of merge_features calls the cnt of every
\* entry is the number of models merged into it, at least 1 and at most k.
C3_SupportIsModelCount ==
    (MergeDone /\ k >= 1) =>
        \A i \in 1..Len(features) :
            /\ Entry(i).cnt = Cardinality(contrib[features[i]])
            /\ 1 <= Entry(i).cnt
            /\ Entry(i).cnt <= k

\* C7: a list merged into the empty set and then merged again leaves every
\* entry with cnt at most 2.
C7_SupportAtMostTwo ==
    (k = 2 /\ MergeDone) => \A i \in 1..Len(features) : Entry(i).cnt <= 2

C8_EntriesWellFormed ==
    \A i \in 1..Len(features) :
        /\ Entry(i).interval[1] <= Entry(i).interval[2]
        /\ Entry(i).cnt >= 1

\* C8: folding bins with interval[0] <= interval[1] and cnt 1 into the empty
\* set, every entry of the merged set keeps interval[0] <= interval[1] and
\* cnt >= 1, and no step makes the merged set shorter.
C8_NeverShrinks ==
    [][C8_EntriesWellFormed' /\ Len(features') >= Len(features)]_vars

\* An entry that was widened by a match, beside one that was appended.
C8_Witness ==
    /\ Len(features) = 2
    /\ Entry(1).cnt = 2 /\ Entry(2).cnt = 1
    /\ Entry(1).interval = <<0, 2>>

\* Three one-bin reports a, b, c of one name: b overlaps a and c, which do
\* not overlap each other.
C9_Chain ==
    /\ reports[1][1].name = reports[2][1].name
    /\ reports[2][1].name = reports[3][1].name
    /\ get_overlap(reports[1][1].interval, reports[2][1].interval) > 0
    /\ get_overlap(reports[2][1].interval, reports[3][1].interval) > 0
    /\ get_overlap(reports[1][1].interval, reports[3][1].interval) = 0

\* The reports were folded in the order a, b, c and then in the order a, c, b.
C9_BothRunsDone ==
    /\ first_run # <<>>
    /\ k = 3 /\ MergeDone
    /\ order[2] = <<1, 3, 2>>

\* C9: the fold depends on the order of the models.  For one-bin models a,
\* b, c of one name where b overlaps a and c but a and c do not overlap, the
\* order a, b, c gives one entry of cnt 3 (the union of a and b overlaps c,
\* which a alone did not), the order a, c, b gives two entries of cnt 2, and
\* the two merged sets differ as multisets.
C9_OrderDependent ==
    (C9_BothRunsDone /\ C9_Chain) =>
        LET a == reports[1][1]
            b == reports[2][1]
            c == reports[3][1]
            one == [name |-> a.name,
                    interval |-> <<Min(a.interval[1], Min(b.interval[1], c.interval[1])),
                                   Max(a.interval[2], Max(b.interval[2], c.interval[2]))>>,
                    ratio |-> a.ratio + b.ratio + c.ratio,
                    cnt |-> 3]
        IN  /\ first_run[1] = BagOf(<<one>>)
            /\ Len(features) = 2
            /\ Entry(1).cnt = 2 /\ Entry(2).cnt = 2
            /\ first_run[1] # BagOf(Merged)

C9_Witness == C9_BothRunsDone /\ C9_Chain /\ first_run[1] # BagOf(Merged)

\* C2 as stated: get_overlap is truthy exactly when the closed intervals
\* share a point, max(a0, b0) <= min(a1, b1).
C2_SharesPoint ==
    ov.result # <<>> =>
        (ov.result[1] # 0 <=> Max(ov.a[1], ov.b[1]) <= Min(ov.a[2], ov.b[2]))

\* C2, amended: get_overlap is truthy exactly when the intervals share more
\* than one point, max(a0, b0) < min(a1, b1).
C2_SharesSegment ==
    ov.result # <<>> =>
        (ov.result[1] # 0 <=> Max(ov.a[1], ov.b[1]) < Min(ov.a[2], ov.b[2]))

\* Two intervals that touch at an endpoint were compared.
C2_Witness ==
    /\ ov.result = <<0>>
    /\ ov.a[1] < ov.a[2] /\ ov.a[2] = ov.b[1] /\ ov.b[1] < ov.b[2]

C10_MarkerLines == {i \in 1..Len(rm.fm) : rm.fm[i].marker}

C10_RecordsAfterMarker ==
    {i \in 1..Len(rm.fm) :
        /\ rm.fm[i].fields = 4
        /\ \E j \in C10_MarkerLines : j < i}

\* C10: read_model returns, in report order, the first N four-field lines
\* after the marker line (all of them when there are fewer), and stops
\* reading at the N-th.
C10_FirstNAfterMarker ==
    rm.done =>
        LET want == {i \in C10_RecordsAfterMarker :
                        Cardinality({j \in C10_RecordsAfterMarker : j < i}) < rm.n}
        IN  /\ {rm.features[j] : j \in 1..Len(rm.features)} = want
            /\ Len(rm.features) = Cardinality(want)
            /\ \A j \in 1..(Len(rm.features) - 1) : rm.features[j] < rm.features[j + 1]
            /\ Len(rm.features) = rm.n => rm.line - 1 = rm.features[rm.n]

\* C6: score_feature_vector fails whenever a component is outside [0,1],
\* and reads the tables only at indices 0..cnt_bins-1.
C6_OutOfRangeFails ==
    sv.result # <<>> =>
        LET r == sv.result[1]
        IN  /\ (\E i \in 1..Len(sv.feature_vector) :
                    sv.feature_vector[i] < 0 \/ sv.feature_vector[i] > 4) => r.error
            /\ \A j \in 1..Len(r.looked) :
                  /\ 0 <= sv.feature_vector[j] /\ sv.feature_vector[j] <= 4
                  /\ 0 <= r.looked[j] /\ r.looked[j] <= sv.cnt_bins - 1

\* C4: for a header that holds every model feature name, component i of a
\* fragment's vector is the cell of the column named feature_names[i],
\* imputed, clipped and scaled with the parameters of index i.
C4_ModelFeatureOrder ==
    nf.result # <<>> =>
        LET r == nf.result[1]
            header == nf.rows[1]
            col(i) == CHOOSE c \in 1..Len(header) : header[c] = features_names[i]
            row(s) == CHOOSE n \in 2..Len(nf.rows) :
                         /\ nf.rows[n][1] = s
                         /\ \A n2 \in (n + 1)..Len(nf.rows) : nf.rows[n2][1] # s
        IN  /\ ~r.error
            /\ \A s \in DOMAIN r.fragments_features :
                  \A i \in 1..Len(features_names) :
                      r.fragments_features[s][i] =
                          NormalizedCell(nf.rows[row(s)][col(i)], i, ScreenModel)

C5_ScoreOf(s) == score_feature_vector(fragments_features[s], ScreenModel).score

C5_Distinct(frags) == {frags[i] : i \in 1..Len(frags)}

C5_First(frags, s) == CHOOSE i \in 1..Len(frags) :
                         frags[i] = s /\ \A j \in 1..(i - 1) : frags[j] # s

RECURSIVE C5_Sum(_)
C5_Sum(S) == IF S = {} THEN 0
             ELSE LET s == CHOOSE x \in S : TRUE
                  IN  C5_ScoreOf(s) + C5_Sum(S \ {s})

\* C5: in screen the fragments of a molecule are taken in list order and a
\* smiles is scored once, where it first occurs; the molecule's score is the
\* mean of one score per distinct smiles, and the smiles seen start empty
\* for every molecule.
C5_ScoredOnce ==
    /\ sc.at = "for_frag" =>
          LET seen == SubSeq(sc.mols[sc.mol], 1, sc.frag - 1)
              p == sc.processed_frags
          IN  /\ C5_Distinct(p) = C5_Distinct(seen)
              /\ Len(p) = Cardinality(C5_Distinct(seen))
              /\ \A i, j \in 1..Len(p) :
                    i < j => C5_First(seen, p[i]) < C5_First(seen, p[j])
              /\ sc.fragments_scores = [i \in 1..Len(p) |-> C5_ScoreOf(p[i])]
    /\ \A m \in 1..Len(sc.score) :
          LET d == C5_Distinct(sc.mols[m])
          IN  sc.score[m] = IF d = {} THEN <<>>
                            ELSE <<(<<C5_Sum(d), Cardinality(d)>>)>>

\* The second molecule repeats a smiles of its own and shares one with the
\* first, and both have their score.
C5_Witness ==
    /\ Len(sc.score) = 2
    /\ Len(sc.mols[2]) = 3
    /\ Cardinality(C5_Distinct(sc.mols[2])) = 2
    /\ C5_Distinct(sc.mols[1]) \cap C5_Distinct(sc.mols[2]) # {}

====
